---- MODULE Spec2Model ----
(***************************************************************************)
(* Model of the two UI modules of image-text-composer:                     *)
(*   - the canvas editor (src/src/app/page.tsx): undo/redo log, snapshots, *)
(*     local-storage persistence, upload, export, reset;                   *)
(*   - the wallet panel (src/src/components/wallet/index.js).              *)
(* Asynchronous handlers are split at the awaits that wait for a           *)
(* macrotask (an image load, a provider request); everything a handler     *)
(* does between two such waits is one atomic step.                         *)
(***************************************************************************)
EXTENDS Integers, Sequences, FiniteSets, TLC

\* ------------------------------------------------------------------ bounds
MAX_HISTORY == 20
\* most text boxes the user puts on the canvas (Spec)
MaxObjs == 1
\* the user starts no edit, undo or redo once the two logs together hold
\* more entries than this (Spec)
MaxLog == 3
\* most asynchronous operations in flight at once, pending timers included
MaxTasks == 2
\* the same two bounds where the user does one thing at a time (SpecSeq)
SeqObjs == 2
SeqLog == 4
\* most text boxes and log entries of a long session (SpecLong)
LongObjs == 21
LongLog == 40

\* the keyboard sessions: text boxes, log entries, and the distance moved
KeyObjs == 2
KeyLog == 3
MaxMove == 11

\* the files the user uploads and the font sizes the user enters
Images == {"imgA"}
FontSizes == {48}
\* the options of the Font Weight select
FontWeights == {"normal", "bold"}

\* ------------------------------------------------------------------ state
VARIABLES
    objs,           \* canvas.getObjects(): the text boxes, bottom to top
    bgImage,        \* canvas.backgroundImage: "none" or the image's src
    backgroundRef,  \* backgroundRef.current: "none" (null) or a src
    imgOriginal,    \* imgOriginal.current: NoSize (null) or {width, height}
    hasBackground, canUndo, canRedo,
    activeText,     \* index in objs of the active text box, 0 for null
    undoStack, redoStack,
    isRestoring,
    storage,        \* localStorage canvasDesign: <<>> or <<entry>>
    tasks,          \* asynchronous operations waiting for an image load
    timers,         \* pending setTimeout(..., 0) callbacks of loadSnapshot
    lastExport,     \* outcome of the last handleExport
    threw           \* an undo/redo rejected with an exception

evars == <<objs, bgImage, backgroundRef, imgOriginal, hasBackground, canUndo,
           canRedo, activeText, undoStack, redoStack, isRestoring, storage,
           tasks, timers, lastExport, threw>>

\* the wallet panel (src/src/components/wallet/index.js)
VARIABLES
    web3,           \* a Web3 instance exists (FALSE for null)
    account,        \* "none" (null) or an address
    balance,
    isConnected, loading,
    message,        \* message.text, "" when no message is shown
    sendForm,       \* [to, amount, gasPrice]
    transactions,   \* newest first
    networkId,      \* "none" (null) or a chain id
    isCorrectNetwork,
    ethereum,       \* window.ethereum is injected
    permitted,      \* the accounts the provider exposes to the page
    chainId,        \* the provider's current chain
    listening,      \* accountsChanged / chainChanged listeners are registered
    requests        \* provider calls in flight, with what their closures captured

wvars == <<web3, account, balance, isConnected, loading, message, sendForm,
           transactions, networkId, isCorrectNetwork, ethereum, permitted,
           chainId, listening, requests>>

vars == <<evars, wvars>>

\* The editor state as one record, so that a handler's statements compose.
Cur ==
    [objs |-> objs, bgImage |-> bgImage, backgroundRef |-> backgroundRef,
     imgOriginal |-> imgOriginal, hasBackground |-> hasBackground,
     canUndo |-> canUndo, canRedo |-> canRedo, activeText |-> activeText,
     undoStack |-> undoStack, redoStack |-> redoStack,
     isRestoring |-> isRestoring, storage |-> storage, tasks |-> tasks,
     timers |-> timers, lastExport |-> lastExport, threw |-> threw]

Become(s) ==
    /\ objs' = s.objs
    /\ bgImage' = s.bgImage
    /\ backgroundRef' = s.backgroundRef
    /\ imgOriginal' = s.imgOriginal
    /\ hasBackground' = s.hasBackground
    /\ canUndo' = s.canUndo
    /\ canRedo' = s.canRedo
    /\ activeText' = s.activeText
    /\ undoStack' = s.undoStack
    /\ redoStack' = s.redoStack
    /\ isRestoring' = s.isRestoring
    /\ storage' = s.storage
    /\ tasks' = s.tasks
    /\ timers' = s.timers
    /\ lastExport' = s.lastExport
    /\ threw' = s.threw
    /\ UNCHANGED wvars

\* ------------------------------------------------------------ data shapes
\* img.width and img.height of an uploaded file
ImageSize(img) ==
    IF img = "imgA" THEN [width |-> 800, height |-> 600]
    ELSE [width |-> 400, height |-> 300]

\* stands for null where a {width, height} is expected
NoSize == [width |-> 0, height |-> 0]

\* new fabric.Textbox("Edit me", {...}) of addText
NewTextbox == [left |-> 50, top |-> 50, fontSize |-> 32, fontWeight |-> "normal"]

\* A string held by a stack or by local storage, by the JSON it encodes:
\*   "snapshot": {objects: canvas.toJSON(), background: backgroundRef.current}
\*   "canvas":   canvas.toJSON() alone, i.e. {objects: [...], backgroundImage}
\*   "undefined": what Array.pop() returns on an empty array
SnapshotOf(s) ==
    [shape |-> "snapshot", objs |-> s.objs, bgImage |-> s.bgImage,
     background |-> s.backgroundRef]

CanvasJSONOf(s) ==
    [shape |-> "canvas", objs |-> s.objs, bgImage |-> s.bgImage,
     background |-> "none"]

Undefined ==
    [shape |-> "undefined", objs |-> <<>>, bgImage |-> "none", background |-> "none"]

\* const { objects, background } = JSON.parse(entry); loadFromJSON(objects):
\* for a snapshot, objects is the canvas JSON; for a bare canvas JSON, objects
\* is its array of objects, in which loadFromJSON finds no objects and no
\* backgroundImage.
LoadArg(entry) ==
    IF entry.shape = "snapshot"
    THEN [objs |-> entry.objs, bgImage |-> entry.bgImage]
    ELSE [objs |-> <<>>, bgImage |-> "none"]

\* the destructured background: undefined (falsy) for a bare canvas JSON
BackgroundOf(entry) ==
    IF entry.shape = "snapshot" THEN entry.background ELSE "none"

Last(q) == q[Len(q)]
Front(q) == SubSeq(q, 1, Len(q) - 1)

\* ------------------------------------------------------------ history log
UpdateStackStates(s) ==
    [s EXCEPT !.canUndo = Len(s.undoStack) > 1,
              !.canRedo = Len(s.redoStack) > 0]

\* push(x); if (length > MAX_HISTORY) shift()
PushCapped(stack, x) ==
    IF Len(stack) + 1 > MAX_HISTORY THEN Tail(Append(stack, x))
    ELSE Append(stack, x)

SaveHistoryUnsaved(s) ==
    IF s.isRestoring THEN s
    ELSE UpdateStackStates([s EXCEPT !.undoStack = PushCapped(@, SnapshotOf(s))])

SaveHistory(s) ==
    IF s.isRestoring THEN s
    ELSE UpdateStackStates(
            [s EXCEPT !.undoStack = PushCapped(@, SnapshotOf(s)),
                      !.storage = <<SnapshotOf(s)>>])

\* ------------------------------------------ canvas library calls and events
\* canvas.remove(obj) for obj = objs[i]: splice, then object:removed; removing
\* the active object clears the selection.
RemoveAt(q, i) == SubSeq(q, 1, i - 1) \o SubSeq(q, i + 1, Len(q))

CanvasRemove(s, i) ==
    SaveHistory(
        [s EXCEPT !.objs = RemoveAt(@, i),
                  !.activeText = IF @ = i THEN 0 ELSE IF @ > i THEN @ - 1 ELSE @])

\* canvas.clear(): remove(...getObjects()) fires object:removed once per
\* object, then backgroundImage = undefined
RECURSIVE RemoveAll(_)
RemoveAll(s) ==
    IF s.objs = <<>> THEN s ELSE RemoveAll(CanvasRemove(s, 1))

CanvasClear(s) == [RemoveAll(s) EXCEPT !.bgImage = "none"]

\* n object:added events in a row
RECURSIVE FireAdded(_, _)
FireAdded(s, n) ==
    IF n = 0 THEN s ELSE FireAdded(SaveHistory(s), n - 1)

\* canvas.add(...new): all are inserted, then object:added fires for each
CanvasAdd(s, new) ==
    FireAdded([s EXCEPT !.objs = @ \o new], Len(new))

\* resolution of canvas.loadFromJSON(json): clear(), add(...objects), then
\* the serialized backgroundImage is set
LoadFromJSON(s, json) ==
    [CanvasAdd(CanvasClear(s), json.objs) EXCEPT !.bgImage = json.bgImage]

\* ------------------------------------------------------------ loadSnapshot
\* an operation waiting for an image: which handler, at which await, the
\* parsed entry it restores (undo, redo, load) or the file read (upload)
Task(op, pc, entry, src) == [op |-> op, pc |-> pc, entry |-> entry, src |-> src]

\* the statements after `await loadSnapshot(...)` / at the end of load()
Finish(s, op) ==
    IF op = "load"
    THEN [s EXCEPT !.undoStack = Append(@, CanvasJSONOf(s))]
    ELSE UpdateStackStates([s EXCEPT !.timers = @ + 1])

\* fabric.FabricImage.fromURL(background) has resolved
BackgroundLoaded(s, op, background) ==
    Finish([s EXCEPT !.bgImage = background,
                     !.backgroundRef = background,
                     !.hasBackground = TRUE], op)

\* from `if (background)` on
AfterObjects(s, op, entry) ==
    IF BackgroundOf(entry) # "none"
    THEN [s EXCEPT !.tasks = Append(@, Task(op, "bg", entry, "none"))]
    ELSE IF op = "load"
         THEN Finish(s, op)
         ELSE Finish([s EXCEPT !.backgroundRef = "none",
                               !.hasBackground = FALSE,
                               !.bgImage = "none"], op)

\* from `await canvas.loadFromJSON(objects)` on: a JSON that carries a
\* background image waits for the image to load; one without resolves in the
\* same task.
FromObjects(s, op, entry) ==
    IF LoadArg(entry).bgImage # "none"
    THEN [s EXCEPT !.tasks = Append(@, Task(op, "json", entry, "none"))]
    ELSE AfterObjects(LoadFromJSON(s, LoadArg(entry)), op, entry)

LoadSnapshot(s, op, entry) ==
    FromObjects([s EXCEPT !.isRestoring = TRUE], op, entry)

\* -------------------------------------------------------------- handlers
UndoStep(s) ==
    LET current == IF s.undoStack = <<>> THEN Undefined ELSE Last(s.undoStack)
        rest == IF s.undoStack = <<>> THEN <<>> ELSE Front(s.undoStack)
        s1 == [s EXCEPT !.undoStack = rest,
                        !.redoStack = PushCapped(@, current)]
    IN  IF rest = <<>> \/ Last(rest).shape = "undefined"
        THEN [s1 EXCEPT !.threw = TRUE]
        ELSE LoadSnapshot(s1, "undo", Last(rest))

RedoStep(s) ==
    IF s.redoStack = <<>> THEN s
    ELSE LET snapshot == Last(s.redoStack)
             s1 == [s EXCEPT !.redoStack = Front(@),
                             !.undoStack = PushCapped(@, snapshot)]
         IN  IF snapshot.shape = "undefined"
             THEN [s1 EXCEPT !.threw = TRUE]
             ELSE LoadSnapshot(s1, "redo", snapshot)

ResetStepStacksFirst(s) ==
    UpdateStackStates(
        CanvasClear([s EXCEPT !.backgroundRef = "none",
                              !.hasBackground = FALSE,
                              !.undoStack = <<>>,
                              !.redoStack = <<>>,
                              !.storage = <<>>]))

ResetStep(s) ==
    UpdateStackStates(
        [CanvasClear(s) EXCEPT !.backgroundRef = "none",
                               !.hasBackground = FALSE,
                               !.undoStack = <<>>,
                               !.redoStack = <<>>,
                               !.storage = <<>>])

\* reader.onload of handleUpload, after fabric.FabricImage.fromURL(src)
UploadLoaded(s, src) ==
    LET s1 == CanvasClear([s EXCEPT !.imgOriginal = ImageSize(src),
                                    !.backgroundRef = src,
                                    !.hasBackground = TRUE])
        s2 == [s1 EXCEPT !.bgImage = src]
    IN  [s2 EXCEPT !.storage = <<SnapshotOf(s2)>>]

AddTextStep(s) ==
    [CanvasAdd(s, <<NewTextbox>>) EXCEPT !.activeText = Len(s.objs) + 1]

UpdateTextStep(s, value) ==
    SaveHistory([s EXCEPT !.objs[s.activeText].fontSize = value])

\* onChange of the Font Weight select: activeText.set("fontWeight", weight)
\* and a render; a programmatic set fires no canvas event
FontWeightStep(s, weight) ==
    IF s.activeText = 0 THEN s
    ELSE [s EXCEPT !.objs[s.activeText].fontWeight = weight]

\* the keys the keydown listener can receive: the four arrows and one other
Keys == {"ArrowUp", "ArrowDown", "ArrowLeft", "ArrowRight", "Enter"}

\* handleKey with the step taken from no modifier at all
HandleKeyStepUnshifted(s, key, shift) ==
    IF s.activeText = 0 THEN s
    ELSE CASE key = "ArrowUp" -> [s EXCEPT !.objs[s.activeText].top = @ - 1]
           [] key = "ArrowDown" -> [s EXCEPT !.objs[s.activeText].top = @ + 1]
           [] key = "ArrowLeft" -> [s EXCEPT !.objs[s.activeText].left = @ - 1]
           [] key = "ArrowRight" -> [s EXCEPT !.objs[s.activeText].left = @ + 1]
           [] OTHER -> s

\* handleKey: `if (!canvas.getActiveObject()) return`, then the switch on
\* e.key; obj.top and obj.left are assigned directly, which fires no canvas
\* event (`obj.top || 0` is obj.top for every number)
HandleKeyStep(s, key, shift) ==
    IF s.activeText = 0 THEN s
    ELSE LET step == IF shift THEN 10 ELSE 1
         IN  CASE key = "ArrowUp" -> [s EXCEPT !.objs[s.activeText].top = @ - step]
               [] key = "ArrowDown" -> [s EXCEPT !.objs[s.activeText].top = @ + step]
               [] key = "ArrowLeft" -> [s EXCEPT !.objs[s.activeText].left = @ - step]
               [] key = "ArrowRight" -> [s EXCEPT !.objs[s.activeText].left = @ + step]
               [] OTHER -> s

\* handleExport: `if (!canvas || !original) return`, else a PNG of
\* original.width x original.height is downloaded
ExportStep(s) ==
    IF s.imgOriginal = NoSize
    THEN [s EXCEPT !.lastExport = [status |-> "returned", size |-> NoSize]]
    ELSE [s EXCEPT !.lastExport = [status |-> "png", size |-> s.imgOriginal]]

\* the state of a freshly mounted component, local storage aside
Mounted(saved) ==
    [objs |-> <<>>, bgImage |-> "none", backgroundRef |-> "none",
     imgOriginal |-> NoSize, hasBackground |-> FALSE, canUndo |-> FALSE,
     canRedo |-> FALSE, activeText |-> 0, undoStack |-> <<>>,
     redoStack |-> <<>>, isRestoring |-> FALSE, storage |-> saved,
     tasks |-> <<>>, timers |-> 0,
     lastExport |-> [status |-> "none", size |-> NoSize], threw |-> FALSE]

\* the init effect: restore the saved design, if any
InitEffect(saved) ==
    IF saved = <<>> THEN Mounted(saved)
    ELSE FromObjects(Mounted(saved), "load", saved[1])

\* a waiting operation resumes
Resume(s, t) ==
    IF t.op = "upload" THEN UploadLoaded(s, t.src)
    ELSE IF t.pc = "json"
         THEN AfterObjects(LoadFromJSON(s, LoadArg(t.entry)), t.op, t.entry)
         ELSE BackgroundLoaded(s, t.op, BackgroundOf(t.entry))

\* ------------------------------------------------------------ wallet panel
MaxTx == 2
MaxRequests == 1
\* the same where balance requests overlap (SpecBalance)
BalRequests == 2

Accounts == {"0xA", "0xB"}
\* the chains the user switches between: one supported, one not
Chains == {"0x1", "0x89"}
\* what the user types into the send form
Recipients == {"", "0xB", "bogus"}
Amounts == {"", "1", "2"}
GasPrices == {"20", "30"}

\* web3.utils.isAddress
IsAddress(a) == a \in Accounts

\* supportedNetworks.includes(chainId)
SupportedNetworks == {"0x1", "0x5", "0xaa36a7"}

\* web3.eth.getBalance(account), through fromWei and toFixed(4)
BalanceOf(a) == IF a = "0xA" THEN "1.0000" ELSE "2.0000"

DefaultForm == [to |-> "", amount |-> "", gasPrice |-> "20"]

WCur ==
    [web3 |-> web3, account |-> account, balance |-> balance,
     isConnected |-> isConnected, loading |-> loading, message |-> message,
     sendForm |-> sendForm, transactions |-> transactions,
     networkId |-> networkId, isCorrectNetwork |-> isCorrectNetwork,
     ethereum |-> ethereum, permitted |-> permitted, chainId |-> chainId,
     listening |-> listening, requests |-> requests]

WBecome(s) ==
    /\ web3' = s.web3
    /\ account' = s.account
    /\ balance' = s.balance
    /\ isConnected' = s.isConnected
    /\ loading' = s.loading
    /\ message' = s.message
    /\ sendForm' = s.sendForm
    /\ transactions' = s.transactions
    /\ networkId' = s.networkId
    /\ isCorrectNetwork' = s.isCorrectNetwork
    /\ ethereum' = s.ethereum
    /\ permitted' = s.permitted
    /\ chainId' = s.chainId
    /\ listening' = s.listening
    /\ requests' = s.requests
    /\ UNCHANGED evars

\* a call in flight: the method awaited and the values its closure holds
Request(op, pc, acct, form, sawWeb3) ==
    [op |-> op, pc |-> pc, account |-> acct, to |-> form.to,
     amount |-> form.amount, sawWeb3 |-> sawWeb3]

\* {type, text} of the status line; a text built from a template keeps its
\* constant prefix
NoMessage == [type |-> "", text |-> ""]

ShowMessage(s, type, text) ==
    [s EXCEPT !.message = [type |-> type, text |-> text]]

\* updateBalance() as called from a render that saw web3 and acct
UpdateBalance(s, sawWeb3, acct) ==
    IF ~sawWeb3 \/ acct = "none" THEN s
    ELSE [s EXCEPT !.requests =
            Append(@, Request("balance", "getBalance", acct, DefaultForm, sawWeb3))]

\* useEffect(..., [account, web3]): runs after a render in which account or
\* web3 changed (newWeb3: setWeb3 was given a new instance)
BalanceEffect(old, s, newWeb3) ==
    IF (s.account # old.account \/ s.web3 # old.web3 \/ newWeb3)
       /\ s.account # "none" /\ s.web3
    THEN UpdateBalance(s, s.web3, s.account)
    ELSE s

CheckNetwork(s, chain) ==
    LET s1 == [s EXCEPT !.isCorrectNetwork = chain \in SupportedNetworks]
    IN  IF chain \in SupportedNetworks THEN s1
        ELSE ShowMessage(s1, "error", "Unsupported network. Please switch to Ethereum Mainnet, Goerli, or Sepolia testnet.")

\* the state of a freshly mounted panel; initializeWeb3 has run up to its
\* first await
WalletMounted(injected, exposed, chain) ==
    [web3 |-> injected, account |-> "none", balance |-> "0",
     isConnected |-> FALSE, loading |-> FALSE, message |-> NoMessage,
     sendForm |-> DefaultForm, transactions |-> <<>>, networkId |-> "none",
     isCorrectNetwork |-> TRUE, ethereum |-> injected, permitted |-> exposed,
     chainId |-> chain, listening |-> FALSE,
     requests |-> IF injected
                  THEN <<Request("init", "eth_accounts", "none", DefaultForm, FALSE)>>
                  ELSE <<>>]

\* initializeWeb3 resumes after eth_accounts
InitAccounts(s, ok) ==
    IF ~ok THEN ShowMessage(s, "error", "Failed to initialize Web3. Please refresh the page and try again.")
    ELSE LET s1 == IF s.permitted # <<>>
                   THEN [s EXCEPT !.account = s.permitted[1], !.isConnected = TRUE]
                   ELSE s
             s2 == [s1 EXCEPT !.requests =
                     Append(@, Request("init", "eth_chainId", "none", DefaultForm, FALSE))]
         IN  BalanceEffect(s, s2, FALSE)

\* initializeWeb3 resumes after eth_chainId
InitChain(s, ok) ==
    IF ~ok THEN ShowMessage(s, "error", "Failed to initialize Web3. Please refresh the page and try again.")
    ELSE CheckNetwork([s EXCEPT !.networkId = s.chainId], s.chainId)

\* connectWallet up to its await
ConnectStart(s) ==
    IF ~s.ethereum
    THEN [ShowMessage(s, "error",
            "MetaMask is not installed. Please install MetaMask browser extension to use this wallet.")
            EXCEPT !.loading = FALSE]
    ELSE [s EXCEPT !.loading = TRUE,
                   !.requests = Append(@, Request("connect", "eth_requestAccounts",
                                                 "none", DefaultForm, s.web3))]

ConnectDoneOptimistic(s, r, outcome) ==
    LET s1 ==
          IF outcome \in {"ok", "-32002"}
          THEN IF s.permitted # <<>>
               THEN ShowMessage(
                      [s EXCEPT !.web3 = IF r.sawWeb3 THEN @ ELSE TRUE,
                                !.account = s.permitted[1],
                                !.isConnected = TRUE,
                                !.listening = TRUE],
                      "success", "Wallet connected successfully!")
               ELSE s
          ELSE IF outcome = "4001"
          THEN ShowMessage(s, "error",
                 "Connection rejected. Please approve the connection in MetaMask.")
          ELSE ShowMessage(s, "error", "Failed to connect wallet: ")
        s2 == [s1 EXCEPT !.loading = FALSE]
    IN  BalanceEffect(s, s2, outcome = "ok" /\ s.permitted # <<>> /\ ~r.sawWeb3)

\* connectWallet resumes: outcome is "ok" (eth_requestAccounts resolved with
\* the provider's accounts), or the error code of the rejection
ConnectDone(s, r, outcome) ==
    LET s1 ==
          IF outcome = "ok"
          THEN IF s.permitted # <<>>
               THEN ShowMessage(
                      [s EXCEPT !.web3 = IF r.sawWeb3 THEN @ ELSE TRUE,
                                !.account = s.permitted[1],
                                !.isConnected = TRUE,
                                !.listening = TRUE],
                      "success", "Wallet connected successfully!")
               ELSE s
          ELSE IF outcome = "4001"
          THEN ShowMessage(s, "error",
                 "Connection rejected. Please approve the connection in MetaMask.")
          ELSE IF outcome = "-32002"
          THEN ShowMessage(s, "error",
                 "Connection request already pending. Please check MetaMask.")
          ELSE ShowMessage(s, "error", "Failed to connect wallet: ")
        s2 == [s1 EXCEPT !.loading = FALSE]
    IN  BalanceEffect(s, s2, outcome = "ok" /\ s.permitted # <<>> /\ ~r.sawWeb3)

\* the accountsChanged listener
OnAccountsChanged(s, newAccounts) ==
    IF newAccounts # <<>>
    THEN BalanceEffect(s, [s EXCEPT !.account = newAccounts[1]], FALSE)
    ELSE [s EXCEPT !.account = "none", !.isConnected = FALSE, !.web3 = FALSE]

\* the chainChanged listener
OnChainChanged(s, chain) == CheckNetwork([s EXCEPT !.networkId = chain], chain)

SendStartAddressFirst(s) ==
    IF ~s.web3 \/ s.account = "none"
    THEN ShowMessage(s, "error", "Please connect your wallet first")
    ELSE IF ~IsAddress(s.sendForm.to)
    THEN ShowMessage(s, "error", "Invalid recipient address")
    ELSE IF s.sendForm.to = "" \/ s.sendForm.amount = ""
    THEN ShowMessage(s, "error", "Please fill in all fields")
    ELSE [s EXCEPT !.loading = TRUE,
                   !.requests = Append(@, Request("send", "estimateGas", s.account,
                                                 s.sendForm, s.web3))]

\* sendTransaction up to its first await
SendStart(s) ==
    IF ~s.web3 \/ s.account = "none"
    THEN ShowMessage(s, "error", "Please connect your wallet first")
    ELSE IF s.sendForm.to = "" \/ s.sendForm.amount = ""
    THEN ShowMessage(s, "error", "Please fill in all fields")
    ELSE IF ~IsAddress(s.sendForm.to)
    THEN ShowMessage(s, "error", "Invalid recipient address")
    ELSE [s EXCEPT !.loading = TRUE,
                   !.requests = Append(@, Request("send", "estimateGas", s.account,
                                                 s.sendForm, s.web3))]

\* sendTransaction resumes after estimateGas
SendEstimated(s, r, ok) ==
    IF ok
    THEN [s EXCEPT !.requests = Append(@, [r EXCEPT !.pc = "sendTransaction"])]
    ELSE [ShowMessage(s, "error", "Transaction failed: ") EXCEPT !.loading = FALSE]

SendDoneAppends(s, r, ok) ==
    IF ok
    THEN LET newTransaction == [to |-> r.to, amount |-> r.amount, type |-> "sent"]
             s1 == [s EXCEPT !.transactions = Append(@, newTransaction),
                             !.message = [type |-> "success",
                                          text |-> "Transaction sent successfully! Hash: "],
                             !.sendForm = DefaultForm,
                             !.loading = FALSE]
         IN  UpdateBalance(s1, r.sawWeb3, r.account)
    ELSE [ShowMessage(s, "error", "Transaction failed: ") EXCEPT !.loading = FALSE]

\* sendTransaction resumes after web3.eth.sendTransaction
SendDone(s, r, ok) ==
    IF ok
    THEN LET newTransaction == [to |-> r.to, amount |-> r.amount, type |-> "sent"]
             s1 == [s EXCEPT !.transactions = <<newTransaction>> \o @,
                             !.message = [type |-> "success",
                                          text |-> "Transaction sent successfully! Hash: "],
                             !.sendForm = DefaultForm,
                             !.loading = FALSE]
         IN  UpdateBalance(s1, r.sawWeb3, r.account)
    ELSE [ShowMessage(s, "error", "Transaction failed: ") EXCEPT !.loading = FALSE]

\* updateBalance resumes after getBalance
BalanceDone(s, r, ok) ==
    IF ok THEN [s EXCEPT !.balance = BalanceOf(r.account)] ELSE s

\* the image load that task i waits for completes and its handler resumes
ResumeStep(s, i) == Resume([s EXCEPT !.tasks = RemoveAt(@, i)], s.tasks[i])

\* setTimeout(() => { isRestoring.current = false }, 0) fires
TimerStep(s) == [s EXCEPT !.timers = @ - 1, !.isRestoring = FALSE]

\* everything pending runs to its end, with no user action in between
RECURSIVE RunToEnd(_)
RunToEnd(s) ==
    IF s.tasks # <<>> THEN RunToEnd(ResumeStep(s, 1))
    ELSE IF s.timers > 0 THEN RunToEnd(TimerStep(s))
    ELSE s

\* --------------------------------------------------------------- actions
\* the user keeps editing while the logs are short (bounds the session)
LogSize == Len(undoStack) + Len(redoStack)

MayEdit(maxLog) == LogSize < maxLog

MayStart(maxLog) == Len(tasks) + timers < MaxTasks /\ LogSize <= maxLog

\* <input type="file" disabled={hasBackground}>: FileReader, then the image
HandleUpload(img) ==
    /\ ~hasBackground
    /\ Len(tasks) + timers < MaxTasks
    /\ Become([Cur EXCEPT !.tasks = Append(@, Task("upload", "img", Undefined, img))])

\* <button onClick={addText} disabled={!hasBackground}>
AddText(maxObjs, maxLog) ==
    /\ hasBackground
    /\ Len(objs) < maxObjs
    /\ MayEdit(maxLog)
    /\ Become(AddTextStep(Cur))

UpdateText(value, maxLog) ==
    /\ activeText # 0
    /\ MayEdit(maxLog)
    /\ Become(UpdateTextStep(Cur, value))

DeleteText(maxLog) ==
    /\ activeText # 0
    /\ MayEdit(maxLog)
    /\ Become(CanvasRemove(Cur, activeText))

\* the Font Weight select, shown while a text box is active
ChangeFontWeight(weight) ==
    /\ activeText # 0
    /\ weight # objs[activeText].fontWeight
    /\ Become(FontWeightStep(Cur, weight))

\* selection:created / selection:updated
Select(i) ==
    /\ i \in 1..Len(objs)
    /\ i # activeText
    /\ Become([Cur EXCEPT !.activeText = i])

\* selection:cleared
Deselect ==
    /\ activeText # 0
    /\ Become([Cur EXCEPT !.activeText = 0])

\* how far the text boxes are from where addText puts them
Abs(x) == IF x < 0 THEN -x ELSE x

RECURSIVE Moved(_)
Moved(os) ==
    IF os = <<>> THEN 0
    ELSE Abs(os[1].top - NewTextbox.top) + Abs(os[1].left - NewTextbox.left)
         + Moved(Tail(os))

\* window "keydown": handleKey(e) with e.key = key and e.shiftKey = shift
HandleKey(key, shift) ==
    /\ Moved(HandleKeyStep(Cur, key, shift).objs) <= MaxMove
    /\ Become(HandleKeyStep(Cur, key, shift))

\* <button onClick={undo} disabled={!canUndo}>
Undo(maxLog) ==
    /\ canUndo
    /\ MayStart(maxLog)
    /\ Become(UndoStep(Cur))

\* <button onClick={redo} disabled={!canRedo}>
Redo(maxLog) ==
    /\ canRedo
    /\ MayStart(maxLog)
    /\ Become(RedoStep(Cur))

\* <button onClick={reset} disabled={!hasBackground}>
Reset ==
    /\ hasBackground
    /\ Become(ResetStep(Cur))

\* <button onClick={handleExport} disabled={!hasBackground}>
HandleExport ==
    /\ hasBackground
    /\ Become(ExportStep(Cur))

\* the page is loaded again: a new component over the same local storage
Reload ==
    /\ Become(InitEffect(storage))

\* an image load completes and the operation waiting for it resumes
ResumeTask(i) ==
    /\ i \in 1..Len(tasks)
    /\ Become(ResumeStep(Cur, i))

\* setTimeout(() => { isRestoring.current = false }, 0)
TimerFires ==
    /\ timers > 0
    /\ Become(TimerStep(Cur))

EditorInit ==
    /\ objs = <<>>
    /\ bgImage = "none"
    /\ backgroundRef = "none"
    /\ imgOriginal = NoSize
    /\ hasBackground = FALSE
    /\ canUndo = FALSE
    /\ canRedo = FALSE
    /\ activeText = 0
    /\ undoStack = <<>>
    /\ redoStack = <<>>
    /\ isRestoring = FALSE
    /\ storage = <<>>
    /\ tasks = <<>>
    /\ timers = 0
    /\ lastExport = [status |-> "none", size |-> NoSize]
    /\ threw = FALSE

\* what the user does
UserNext(maxObjs, maxLog) ==
    \/ \E img \in Images : HandleUpload(img)
    \/ AddText(maxObjs, maxLog)
    \/ \E v \in FontSizes : UpdateText(v, maxLog)
    \/ DeleteText(maxLog)
    \/ \E i \in 1..maxObjs : Select(i)
    \/ Undo(maxLog)
    \/ Redo(maxLog)
    \/ Reset
    \/ Reload

\* what the event loop does
SystemNext ==
    \/ \E i \in 1..MaxTasks : ResumeTask(i)
    \/ TimerFires

Next == UserNext(MaxObjs, MaxLog) \/ SystemNext

\* nothing of an earlier operation is pending
Idle == tasks = <<>> /\ timers = 0

\* the user waits for each operation to finish before the next action
NextSeq ==
    \/ Idle /\ \E img \in Images : HandleUpload(img)
    \/ Idle /\ AddText(SeqObjs, SeqLog)
    \/ Idle /\ \E v \in FontSizes : UpdateText(v, SeqLog)
    \/ Idle /\ DeleteText(SeqLog)
    \/ Idle /\ \E i \in 1..SeqObjs : Select(i)
    \/ Idle /\ Undo(SeqLog)
    \/ Idle /\ Redo(SeqLog)
    \/ Idle /\ Reset
    \/ Idle /\ Reload
    \/ \E i \in 1..MaxTasks : ResumeTask(i)
    \/ TimerFires

\* ------------------------------------------------------- wallet actions
\* <button onClick={connectWallet} disabled={loading}>, shown while
\* !isConnected
ConnectWallet ==
    /\ ~isConnected
    /\ ~loading
    /\ Len(requests) < MaxRequests
    /\ WBecome(ConnectStart(WCur))

\* <button onClick={sendTransaction} disabled={loading}>, shown while
\* isConnected
SendTransaction ==
    /\ isConnected
    /\ ~loading
    /\ Len(requests) < MaxRequests
    /\ Len(transactions) < MaxTx
    /\ WBecome(SendStart(WCur))

\* the inputs of the send form
EditTo(v) ==
    /\ isConnected
    /\ v # sendForm.to
    /\ WBecome([WCur EXCEPT !.sendForm.to = v])

EditAmount(v) ==
    /\ isConnected
    /\ v # sendForm.amount
    /\ WBecome([WCur EXCEPT !.sendForm.amount = v])

EditGasPrice(v) ==
    /\ isConnected
    /\ v # sendForm.gasPrice
    /\ WBecome([WCur EXCEPT !.sendForm.gasPrice = v])

\* setTimeout(() => setMessage({type: '', text: ''}), 5000) of showMessage
MessageExpires ==
    /\ message # NoMessage
    /\ WBecome([WCur EXCEPT !.message = NoMessage])

\* a provider call completes and the handler waiting for it resumes
Responds(i, outcome) ==
    /\ i \in 1..Len(requests)
    /\ LET r == requests[i]
           s == [WCur EXCEPT !.requests = RemoveAt(@, i)]
           ok == outcome = "ok"
       IN  \/ /\ r.pc = "eth_accounts"
              /\ outcome \in {"ok", "error"}
              /\ WBecome(InitAccounts(s, ok))
           \/ /\ r.pc = "eth_chainId"
              /\ outcome \in {"ok", "error"}
              /\ WBecome(InitChain(s, ok))
           \/ /\ r.pc = "eth_requestAccounts"
              /\ outcome = "ok" => permitted # <<>>
              /\ WBecome(ConnectDone(s, r, outcome))
           \/ /\ r.pc = "estimateGas"
              /\ outcome \in {"ok", "error"}
              /\ WBecome(SendEstimated(s, r, ok))
           \/ /\ r.pc = "sendTransaction"
              /\ outcome \in {"ok", "error"}
              /\ WBecome(SendDone(s, r, ok))
           \/ /\ r.pc = "getBalance"
              /\ outcome \in {"ok", "error"}
              /\ WBecome(BalanceDone(s, r, ok))

\* the user approves the pending connection request for account a
Approve(a) ==
    /\ permitted = <<>>
    /\ \E i \in 1..Len(requests) : requests[i].pc = "eth_requestAccounts"
    /\ WBecome([WCur EXCEPT !.permitted = <<a>>])

\* the accounts the extension exposes to the page change (the user switches
\* or disconnects the account, locks or unlocks the extension); the provider
\* emits accountsChanged to the registered listeners
AccountsChangedUpTo(newAccounts, maxRequests) ==
    /\ ethereum
    /\ newAccounts # permitted
    /\ Len(requests) < maxRequests
    /\ LET s == [WCur EXCEPT !.permitted = newAccounts]
       IN  WBecome(IF listening THEN OnAccountsChanged(s, newAccounts) ELSE s)

AccountsChanged(newAccounts) == AccountsChangedUpTo(newAccounts, MaxRequests)

\* the user switches the network in the extension
ChainChanged(chain) ==
    /\ ethereum
    /\ chain # chainId
    /\ LET s == [WCur EXCEPT !.chainId = chain]
       IN  WBecome(IF listening THEN OnChainChanged(s, chain) ELSE s)

\* the extension injects window.ethereum after the page has loaded
ProviderInjected ==
    /\ ~ethereum
    /\ WBecome([WCur EXCEPT !.ethereum = TRUE])

Outcomes == {"ok", "error", "4001", "-32002"}

WalletIs(s) ==
    /\ web3 = s.web3
    /\ account = s.account
    /\ balance = s.balance
    /\ isConnected = s.isConnected
    /\ loading = s.loading
    /\ message = s.message
    /\ sendForm = s.sendForm
    /\ transactions = s.transactions
    /\ networkId = s.networkId
    /\ isCorrectNetwork = s.isCorrectNetwork
    /\ ethereum = s.ethereum
    /\ permitted = s.permitted
    /\ chainId = s.chainId
    /\ listening = s.listening
    /\ requests = s.requests

\* the editor specifications leave the wallet panel as mounted without a
\* provider
WalletIdle == WalletIs(WalletMounted(FALSE, <<>>, "0x1"))

\* page load: the provider may be injected or not, may already expose an
\* account, and is on some chain
WalletInit(chains) ==
    \E injected \in BOOLEAN, exposed \in {<<>>} \cup {<<a>> : a \in Accounts},
       chain \in chains :
        WalletIs(WalletMounted(injected, exposed, chain))

WalletNext ==
    \/ ConnectWallet
    \/ SendTransaction
    \/ \E v \in Recipients : EditTo(v)
    \/ \E v \in Amounts : EditAmount(v)
    \/ \E v \in GasPrices : EditGasPrice(v)
    \/ MessageExpires
    \/ \E i \in 1..(MaxRequests + 1), outcome \in Outcomes : Responds(i, outcome)
    \/ \E a \in Accounts : Approve(a)
    \/ \E new \in {<<>>} \cup {<<a>> : a \in Accounts} : AccountsChanged(new)
    \/ ProviderInjected

\* the wallet panel with the provider staying on Ethereum Mainnet
InitWallet == EditorInit /\ WalletInit({"0x1"})

SpecWallet == InitWallet /\ [][WalletNext]_vars

\* the wallet panel while the user changes accounts faster than the balance
\* requests resolve
NextBalance ==
    \/ ConnectWallet
    \/ \E a \in Accounts : Approve(a)
    \/ \E new \in {<<>>} \cup {<<a>> : a \in Accounts} :
           AccountsChangedUpTo(new, BalRequests)
    \/ \E i \in 1..(BalRequests + 1), outcome \in Outcomes : Responds(i, outcome)
    \/ ProviderInjected

SpecBalance == InitWallet /\ [][NextBalance]_vars

Init == EditorInit /\ WalletIdle

\* the editor with every control, short logs and overlapping restores
Spec == Init /\ [][Next]_vars

\* Long sessions: one upload, text boxes added one after the other, exports
\* and page reloads, so that the logs reach MAX_HISTORY.
NextLong ==
    \/ \E img \in Images : HandleUpload(img)
    \/ AddText(LongObjs, LongLog)
    \/ HandleExport
    \/ Reload
    \/ \E i \in 1..MaxTasks : ResumeTask(i)

SpecLong == Init /\ [][NextLong]_vars

\* the editor used one operation at a time
SpecSeq == Init /\ [][NextSeq]_vars

\* the same sessions, the user also changing the font weight
NextStyle ==
    \/ NextSeq
    \/ Idle /\ \E w \in FontWeights : ChangeFontWeight(w)

SpecStyle == Init /\ [][NextStyle]_vars

\* text boxes added, then selected, deselected and nudged with the keyboard
NextKeys ==
    \/ \E img \in Images : HandleUpload(img)
    \/ \E i \in 1..MaxTasks : ResumeTask(i)
    \/ Moved(objs) = 0 /\ AddText(KeyObjs, KeyLog)
    \/ \E i \in 1..KeyObjs : Select(i)
    \/ Deselect
    \/ \E key \in Keys, shift \in BOOLEAN : HandleKey(key, shift)

SpecKeys == Init /\ [][NextKeys]_vars

\* ================================================================ claims
\* what an entry says the canvas holds: its objects, and the background named
\* by a snapshot's background reference (by backgroundImage in a bare canvas
\* JSON)
ExpectedBg(e) == IF e.shape = "snapshot" THEN e.background ELSE e.bgImage


\* the canvas after the step
CanvasBecomes(e) == objs' = e.objs /\ bgImage' = ExpectedBg(e)

\* steps of the handlers, whatever bounds a specification puts on the user
UndoClick == canUndo /\ Become(UndoStep(Cur))

RedoClick == canRedo /\ Become(RedoStep(Cur))

\* a click whose loadSnapshot ran to its end in the same step
RestoredAtOnce == tasks' = tasks /\ timers' = timers + 1

\* the image load that task i waits for completes and its undo or redo ends
RestoreEnds(i) ==
    /\ ResumeTask(i)
    /\ tasks[i].op \in {"undo", "redo"}
    /\ Len(tasks') < Len(tasks)

\* an edit that calls saveHistory once while isRestoring is false
EditRecorded ==
    /\ ~isRestoring
    /\ \/ hasBackground /\ Become(AddTextStep(Cur))
       \/ activeText # 0 /\ \E v \in FontSizes : Become(UpdateTextStep(Cur, v))
       \/ activeText # 0 /\ Become(CanvasRemove(Cur, activeText))

\* C1: in every reachable state the undo stack and the redo stack each hold
\* at most MAX_HISTORY = 20 snapshots.
C1_BoundedCapacity ==
    /\ Len(undoStack) <= MAX_HISTORY
    /\ Len(redoStack) <= MAX_HISTORY

\* C2: an undo started with at least 2 entries pops the top of the undo
\* stack, pushes it on the redo stack and restores the canvas to the entry
\* that is then on top of the undo stack; a redo started with a non-empty redo
\* stack pops its top, pushes it on the undo stack and restores the canvas to
\* that entry; a redo with an empty redo stack changes nothing.
C2_UndoRedoMoves ==
    [][/\ (UndoClick /\ Len(undoStack) >= 2) =>
            /\ undoStack' = Front(undoStack)
            /\ redoStack' = Append(redoStack, Last(undoStack))
            /\ RestoredAtOnce => CanvasBecomes(Last(undoStack'))
       /\ (RedoClick /\ redoStack # <<>>) =>
            /\ redoStack' = Front(redoStack)
            /\ undoStack' = Append(undoStack, Last(redoStack))
            /\ RestoredAtOnce => CanvasBecomes(Last(redoStack))
       /\ (RedoClick /\ redoStack = <<>>) => UNCHANGED vars
       /\ \A i \in 1..MaxTasks : RestoreEnds(i) => CanvasBecomes(tasks[i].entry)
      ]_vars

\* C2 for the entries that are snapshots: what remains of C2 once the entry
\* pushed by the page-load restore (C4) is set aside
C2_SnapshotEntries ==
    [][/\ (UndoClick /\ Len(undoStack) >= 2) =>
            /\ undoStack' = Front(undoStack)
            /\ redoStack' = Append(redoStack, Last(undoStack))
            /\ (RestoredAtOnce /\ Last(undoStack').shape = "snapshot")
                    => CanvasBecomes(Last(undoStack'))
       /\ (RedoClick /\ redoStack # <<>>) =>
            /\ redoStack' = Front(redoStack)
            /\ undoStack' = Append(undoStack, Last(redoStack))
            /\ (RestoredAtOnce /\ Last(redoStack).shape = "snapshot")
                    => CanvasBecomes(Last(redoStack))
       /\ \A i \in 1..MaxTasks :
            (RestoreEnds(i) /\ tasks[i].entry.shape = "snapshot")
                    => CanvasBecomes(tasks[i].entry)
      ]_vars

\* C3: whenever saveHistory records a new edit, the redo stack is empty
\* afterwards and canRedo is false.
C3_EditTruncatesRedo ==
    [][EditRecorded => (redoStack' = <<>> /\ ~canRedo')]_vars

\* C4: every entry on the undo stack or the redo stack is a snapshot of the
\* form {objects, background}.
C4_SnapshotShape ==
    /\ \A i \in 1..Len(undoStack) : undoStack[i].shape = "snapshot"
    /\ \A i \in 1..Len(redoStack) : redoStack[i].shape = "snapshot"
\* C5: every saveHistory call that isRestoring does not suppress pushes one
\* snapshot of the canvas on the undo stack and writes that same snapshot to
\* local storage, so that right after it the persisted value is the top of
\* the undo stack.
C5_SavePersists ==
    [][EditRecorded =>
        /\ undoStack' # <<>>
        /\ Last(undoStack') = SnapshotOf(Cur)'
        /\ \/ Front(undoStack') = undoStack
           \/ undoStack # <<>> /\ Front(undoStack') = Tail(undoStack)
        /\ storage' = <<Last(undoStack')>>
      ]_vars

\* an edit has been recorded and persisted after an undo
C5_Witness ==
    /\ redoStack # <<>>
    /\ Len(undoStack) >= 2
    /\ ~isRestoring
    /\ activeText # 0
    /\ storage = <<Last(undoStack)>>
    /\ Last(undoStack) = SnapshotOf(Cur)
    /\ Last(undoStack) # Last(redoStack)
    /\ Last(undoStack).objs # undoStack[Len(undoStack) - 1].objs

\* C6: whenever the Export PNG control is enabled (hasBackground), handleExport
\* downloads a PNG with the original dimensions of the background image; it
\* never returns without exporting.
C6_ExportAvailable ==
    [][(hasBackground /\ Become(ExportStep(Cur))) =>
            lastExport' = [status |-> "png", size |-> ImageSize(bgImage)]]_vars

\* C10: from a quiescent state with at least 2 entries on the undo stack and
\* fewer than 20 on the redo stack, an undo run to completion followed by a
\* redo run to completion leaves both stacks as they were and the canvas
\* restored to the snapshot on top of the undo stack.
C10_RoundTrip ==
    (Idle /\ canUndo /\ Len(undoStack) >= 2 /\ Len(redoStack) < MAX_HISTORY) =>
        LET afterUndo == RunToEnd(UndoStep(Cur))
            afterRedo == RunToEnd(RedoStep(afterUndo))
        IN  /\ afterRedo.undoStack = undoStack
            /\ afterRedo.redoStack = redoStack
            /\ afterRedo.objs = Last(undoStack).objs
            /\ afterRedo.bgImage = ExpectedBg(Last(undoStack))

\* C10 from the states whose top entry is a snapshot
C10_SnapshotOnTop ==
    (Idle /\ canUndo /\ Len(undoStack) >= 2 /\ Len(redoStack) < MAX_HISTORY
          /\ Last(undoStack).shape = "snapshot"
          /\ undoStack[Len(undoStack) - 1].shape = "snapshot") =>
        LET afterUndo == RunToEnd(UndoStep(Cur))
            afterRedo == RunToEnd(RedoStep(afterUndo))
        IN  /\ afterRedo.undoStack = undoStack
            /\ afterRedo.redoStack = redoStack
            /\ afterRedo.objs = Last(undoStack).objs
            /\ afterRedo.bgImage = ExpectedBg(Last(undoStack))
\* sendTransaction called in state s obeys the validation contract
SendChecked(s) ==
    LET n == SendStart(s)
        connected == s.web3 /\ s.account # "none"
        filled == s.sendForm.to # "" /\ s.sendForm.amount # ""
        valid == IsAddress(s.sendForm.to)
    IN  /\ ~(connected /\ filled /\ valid) =>
              /\ n.requests = s.requests
              /\ n.loading = s.loading
              /\ n.sendForm = s.sendForm
              /\ n.transactions = s.transactions
              /\ n.message.type = "error"
        /\ ~connected => n.message.text = "Please connect your wallet first"
        /\ (connected /\ ~filled) => n.message.text = "Please fill in all fields"
        /\ (connected /\ filled /\ ~valid) =>
              n.message.text = "Invalid recipient address"
        /\ (connected /\ filled /\ valid) =>
              /\ Len(n.requests) = Len(s.requests) + 1
              /\ Last(n.requests).pc = "estimateGas"

\* C7: sendTransaction makes no provider call and leaves loading, the send
\* form and the transaction history unchanged unless web3 and an account are
\* present, recipient and amount are non-empty and the recipient is a valid
\* address; the checks are made in that order and the first failing one
\* determines the message. Checked for the panel's state with every
\* combination of web3, account, recipient and amount.
C7_SendValidation ==
    \A w \in BOOLEAN, a \in Accounts \cup {"none"}, to \in Recipients, amt \in Amounts :
        SendChecked([WCur EXCEPT !.web3 = w, !.account = a,
                                 !.sendForm.to = to, !.sendForm.amount = amt])

\* Send ETH has been clicked with a recipient that is no address
C7_Witness ==
    /\ isConnected
    /\ web3
    /\ account # "none"
    /\ sendForm.to = "bogus"
    /\ sendForm.amount # ""
    /\ message = [type |-> "error", text |-> "Invalid recipient address"]
    /\ requests = <<>>
    /\ ~loading
    /\ transactions # <<>>

\* the send that waits on request i resumes with its call resolved
SendResolves(i) ==
    /\ i \in 1..Len(requests)
    /\ requests[i].pc = "sendTransaction"
    /\ WBecome(SendDone([WCur EXCEPT !.requests = RemoveAt(@, i)], requests[i], TRUE))

\* the send that waits on request i resumes with its call rejected
SendFails(i) ==
    /\ i \in 1..Len(requests)
    /\ \/ /\ requests[i].pc = "estimateGas"
          /\ WBecome(SendEstimated([WCur EXCEPT !.requests = RemoveAt(@, i)],
                                   requests[i], FALSE))
       \/ /\ requests[i].pc = "sendTransaction"
          /\ WBecome(SendDone([WCur EXCEPT !.requests = RemoveAt(@, i)],
                              requests[i], FALSE))

\* C8: an entry is added to the transaction history if and only if the
\* provider's sendTransaction call resolved; it is prepended and the form is
\* reset to {to: '', amount: '', gasPrice: '20'}; when gas estimation or the
\* send fails, the history and the form are unchanged and an error message is
\* shown.
C8_HistoryOfSends ==
    [][/\ \A i \in 1..(MaxRequests + 1) :
            /\ SendResolves(i) =>
                  /\ transactions' =
                        <<[to |-> requests[i].to, amount |-> requests[i].amount,
                           type |-> "sent"]>> \o transactions
                  /\ sendForm' = [to |-> "", amount |-> "", gasPrice |-> "20"]
            /\ SendFails(i) =>
                  /\ transactions' = transactions
                  /\ sendForm' = sendForm
                  /\ message'.type = "error"
       /\ transactions' # transactions =>
            \E i \in 1..(MaxRequests + 1) : SendResolves(i)
      ]_vars

\* two sends of different amounts have resolved, the later one listed first
C8_Witness ==
    /\ Len(transactions) = 2
    /\ transactions[1].amount = "2"
    /\ transactions[2].amount = "1"
    /\ sendForm = DefaultForm
    /\ message.type = "success"
    /\ ~loading

\* Connect MetaMask is clicked
ConnectClick == WBecome(ConnectStart(WCur))

\* the connectWallet that waits on request i resumes with the given outcome
ConnectResumes(i, outcome) ==
    /\ i \in 1..Len(requests)
    /\ requests[i].pc = "eth_requestAccounts"
    /\ WBecome(ConnectDone([WCur EXCEPT !.requests = RemoveAt(@, i)],
                           requests[i], outcome))

\* C9: connectWallet sets isConnected and the account (to the first returned
\* account) only when eth_requestAccounts resolves with at least one account;
\* with no provider, or a request rejected (4001), already pending (-32002)
\* or failed otherwise, account and isConnected stay as they were and an error
\* message is shown.
C9_ConnectionOutcome ==
    [][/\ ConnectClick =>
            /\ account' = account
            /\ isConnected' = isConnected
            /\ ~ethereum => (message'.type = "error" /\ requests' = requests)
       /\ \A i \in 1..(MaxRequests + 1) :
            /\ ConnectResumes(i, "ok") =>
                  IF permitted # <<>>
                  THEN account' = permitted[1] /\ isConnected'
                  ELSE account' = account /\ isConnected' = isConnected
            /\ \A outcome \in Outcomes \ {"ok"} :
                  ConnectResumes(i, outcome) =>
                      /\ account' = account
                      /\ isConnected' = isConnected
                      /\ message'.type = "error"
      ]_vars

\* a connection request has been approved and has resolved
C9_Witness ==
    /\ isConnected
    /\ permitted # <<>>
    /\ account = permitted[1]
    /\ listening
    /\ message = [type |-> "success", text |-> "Wallet connected successfully!"]
    /\ ~loading

\* C11: when a push by saveHistory or redo would make the undo stack exceed 20
\* entries (or a push by undo would make the redo stack exceed 20), exactly
\* one entry is dropped, the oldest one, and the remaining 20 entries keep
\* their order with the newly pushed entry on top.
C11_EvictionOrder ==
    [][/\ (EditRecorded /\ Len(undoStack) >= MAX_HISTORY) =>
            /\ undoStack' = Append(Tail(undoStack), SnapshotOf(Cur)')
            /\ Len(undoStack') = MAX_HISTORY
       /\ (RedoClick /\ redoStack # <<>> /\ Len(undoStack) >= MAX_HISTORY) =>
            /\ undoStack' = Append(Tail(undoStack), Last(redoStack))
            /\ Len(undoStack') = MAX_HISTORY
       /\ (UndoClick /\ Len(redoStack) >= MAX_HISTORY) =>
            /\ redoStack' = Append(Tail(redoStack), Last(undoStack))
            /\ Len(redoStack') = MAX_HISTORY
      ]_vars

\* C11 for a push on a stack of exactly 20 entries
C11_AtCapacity ==
    [][(EditRecorded /\ Len(undoStack) = MAX_HISTORY) =>
            /\ undoStack' = Append(Tail(undoStack), SnapshotOf(Cur)')
            /\ Len(undoStack') = MAX_HISTORY
      ]_vars

\* an undo or a redo completes: its loadSnapshot has installed objects and
\* background and updateStackStates has run
UndoRedoCompletes ==
    \/ (UndoClick \/ RedoClick) /\ RestoredAtOnce
    \/ \E i \in 1..MaxTasks : RestoreEnds(i)

\* C12: after an undo or a redo has completed, local storage holds the
\* snapshot the canvas was restored to (the top of the undo stack), so that a
\* page load at that point restores what the user last saw.
C12_PersistedFollowsUndo ==
    [][UndoRedoCompletes => storage' = <<Last(undoStack')>>]_vars

\* handleUpload's reader.onload installs the background, the history being
\* empty
UploadOnEmpty ==
    /\ undoStack = <<>>
    /\ redoStack = <<>>
    /\ \E i \in 1..MaxTasks :
        /\ i \in 1..Len(tasks)
        /\ tasks[i].op = "upload"
        /\ ResumeTask(i)

\* the editor as handleUpload leaves it on an empty history, nothing pending
AfterUpload ==
    /\ Idle
    /\ hasBackground
    /\ imgOriginal # NoSize
    /\ bgImage # "none"
    /\ objs = <<>>
    /\ redoStack = <<>>
    /\ Len(undoStack) <= 1
    /\ storage = <<SnapshotOf(Cur)>>

\* C13: after handleUpload has installed a background on an empty history,
\* the background-only canvas is the base entry of the undo log, so after the
\* first recorded edit canUndo is true and undo restores the canvas to the
\* uploaded background with no text.
C13_FirstEditUndoable ==
    [][/\ UploadOnEmpty => undoStack' = <<SnapshotOf(Cur)'>>
       /\ (AfterUpload /\ EditRecorded) =>
            /\ canUndo'
            /\ LET undone == RunToEnd(UndoStep(Cur'))
               IN  undone.objs = <<>> /\ undone.bgImage = bgImage
      ]_vars

\* C13, its conclusion alone: the first edit after an upload can be undone
C13_UndoAfterFirstEdit ==
    [][(AfterUpload /\ EditRecorded) => canUndo']_vars

\* a styling control of the active text box is changed
StyleChange ==
    /\ activeText # 0
    /\ \/ \E v \in FontSizes : Become(UpdateTextStep(Cur, v))
       \/ \E w \in FontWeights :
            w # objs[activeText].fontWeight /\ Become(FontWeightStep(Cur, w))

\* C14: each change made to the active text box through the styling controls
\* records exactly one history snapshot reflecting the change.
C14_StylingRecorded ==
    [][StyleChange =>
        /\ undoStack' # <<>>
        /\ Last(undoStack') = SnapshotOf(Cur)'
        /\ \/ Front(undoStack') = undoStack
           \/ undoStack # <<>> /\ Front(undoStack') = Tail(undoStack)
      ]_vars

\* C14 for the controls wired to updateText
C14_UpdateTextRecorded ==
    [][(activeText # 0 /\ \E v \in FontSizes : Become(UpdateTextStep(Cur, v))) =>
        /\ undoStack' # <<>>
        /\ Last(undoStack') = SnapshotOf(Cur)'
        /\ \/ Front(undoStack') = undoStack
           \/ undoStack # <<>> /\ Front(undoStack') = Tail(undoStack)
      ]_vars

\* the init effect's load() of a saved design reaches its end
LoadCompletes ==
    \/ /\ storage # <<>>
       /\ Become(InitEffect(storage))
       /\ tasks' = <<>>
    \/ \E i \in 1..MaxTasks :
        /\ i \in 1..Len(tasks)
        /\ tasks[i].op = "load"
        /\ ResumeTask(i)
        /\ \A j \in 1..Len(tasks') : tasks'[j].op # "load"

\* C15: once the load of a saved design has completed, the undo stack holds
\* exactly one entry, which records the restored canvas, the redo stack is
\* empty and canUndo is false; the object:added events of the restore add no
\* entries.
C15_SingleBaseEntry ==
    [][LoadCompletes =>
        /\ Len(undoStack') = 1
        /\ undoStack'[1].objs = objs'
        /\ undoStack'[1].bgImage = bgImage'
        /\ redoStack' = <<>>
        /\ ~canUndo'
      ]_vars

\* C15 for a saved design without text boxes
C15_EmptyDesign ==
    [][(LoadCompletes /\ objs' = <<>>) =>
        /\ Len(undoStack') = 1
        /\ undoStack'[1].objs = objs'
        /\ undoStack'[1].bgImage = bgImage'
        /\ redoStack' = <<>>
        /\ ~canUndo'
      ]_vars

\* the loadSnapshot of an undo or redo, waiting as task i, resumes
RestoreStep(i) ==
    /\ i \in 1..Len(tasks)
    /\ tasks[i].op \in {"undo", "redo"}
    /\ ResumeTask(i)

\* C16: while a loadSnapshot started by undo or redo is in progress,
\* isRestoring is true, so the events the restore causes never push a snapshot
\* on the undo stack or write local storage, also when a second undo or redo
\* was started before an earlier restore finished.
C16_RestoreRecordsNothing ==
    [][\A i \in 1..MaxTasks :
        RestoreStep(i) =>
            /\ isRestoring
            /\ undoStack' = undoStack
            /\ storage' = storage
      ]_vars

\* C17: in every interleaving of clicks with restores in flight, undo is only
\* executed when the undo stack holds at least 2 entries, so it never leaves
\* the undo stack empty and never reads a snapshot from an empty stack.
C17_UndoNeedsTwo ==
    [][UndoClick =>
        /\ Len(undoStack) >= 2
        /\ undoStack' # <<>>
        /\ ~threw'
      ]_vars

\* C18: in every state where no operation is in flight, canUndo is true
\* exactly when the undo stack holds more than 1 entry and canRedo exactly
\* when the redo stack is non-empty.
C18_FlagsMirrorStacks ==
    Idle =>
        /\ canUndo = (Len(undoStack) > 1)
        /\ canRedo = (redoStack # <<>>)

\* C18 where the undo stack holds no base entry of a page load
C18_WithoutPageLoad ==
    (Idle /\ \A i \in 1..Len(undoStack) : undoStack[i].shape = "snapshot") =>
        /\ canUndo = (Len(undoStack) > 1)
        /\ canRedo = (redoStack # <<>>)

\* the Reset button is clicked
ResetClick == hasBackground /\ Become(ResetStep(Cur))

\* C19: immediately after reset returns, both stacks are empty, canUndo and
\* canRedo are false, hasBackground is false, the background reference is null
\* and local storage holds no canvasDesign entry; the object:removed events
\* fired while the canvas is cleared leave no snapshot behind.
C19_ResetState ==
    [][ResetClick =>
        /\ undoStack' = <<>>
        /\ redoStack' = <<>>
        /\ ~canUndo'
        /\ ~canRedo'
        /\ ~hasBackground'
        /\ backgroundRef' = "none"
        /\ storage' = <<>>
      ]_vars

\* the editor after a reset of a design uploaded in this session
C19_Witness ==
    /\ imgOriginal # NoSize
    /\ ~hasBackground
    /\ backgroundRef = "none"
    /\ bgImage = "none"
    /\ objs = <<>>
    /\ undoStack = <<>>
    /\ redoStack = <<>>
    /\ ~canUndo
    /\ ~canRedo
    /\ storage = <<>>
    /\ Idle

\* an undo or a redo is still awaiting its loadSnapshot
RestoreInFlight ==
    \E i \in 1..Len(tasks) : tasks[i].op \in {"undo", "redo"}

\* C20: if reset is invoked while an undo or redo is still awaiting
\* loadSnapshot, then once all in-flight operations have completed the editor
\* is in the reset state: hasBackground false, background reference null, no
\* background and no objects on the canvas, both stacks empty.
C20_ResetWins ==
    [][(RestoreInFlight /\ ResetClick) =>
        LET end == RunToEnd(Cur')
        IN  /\ ~end.hasBackground
            /\ end.backgroundRef = "none"
            /\ end.bgImage = "none"
            /\ end.objs = <<>>
            /\ end.undoStack = <<>>
            /\ end.redoStack = <<>>
      ]_vars

\* C21. Keyboard nudge: with an active object, ArrowUp / ArrowDown change
\* only its top by -step / +step and ArrowLeft / ArrowRight change only its
\* left by -step / +step, step being 10 with Shift held and 1 otherwise; any
\* other key, and any key pressed with no active object, moves nothing.
\* Stated for every key and modifier in every reachable state of the editor.
NudgeTop(key, shift) ==
    CASE key = "ArrowUp" -> IF shift THEN -10 ELSE -1
      [] key = "ArrowDown" -> IF shift THEN 10 ELSE 1
      [] OTHER -> 0

NudgeLeft(key, shift) ==
    CASE key = "ArrowLeft" -> IF shift THEN -10 ELSE -1
      [] key = "ArrowRight" -> IF shift THEN 10 ELSE 1
      [] OTHER -> 0

C21_KeyboardNudge ==
    \A key \in Keys, shift \in BOOLEAN :
        LET after == HandleKeyStep(Cur, key, shift)
        IN  /\ Len(after.objs) = Len(objs)
            /\ \A i \in 1..Len(objs) :
                   after.objs[i] =
                       IF i = activeText
                       THEN [objs[i] EXCEPT !.top = @ + NudgeTop(key, shift),
                                            !.left = @ + NudgeLeft(key, shift)]
                       ELSE objs[i]
            /\ after = [Cur EXCEPT !.objs = after.objs]

\* the second text box nudged up with Shift and right without, the first one
\* still where addText put it
C21_Witness ==
    /\ Len(objs) = 2
    /\ activeText = 2
    /\ objs[2].top = 40 /\ objs[2].left = 51
    /\ objs[1].top = 50 /\ objs[1].left = 50

\* C22. Provider account changes are tracked whenever the panel is connected:
\* in every state where isConnected is true, however the connection was made
\* (eth_accounts at page load or connectWallet), an accountsChanged event
\* with a non-empty list sets account to its first element, and one with an
\* empty list returns the panel to the disconnected state (account null,
\* isConnected false).
C22_AccountChangesTracked ==
    [][\A new \in {<<>>} \cup {<<a>> : a \in Accounts} :
          (isConnected /\ AccountsChanged(new)) =>
              IF new # <<>> THEN account' = new[1]
              ELSE account' = "none" /\ ~isConnected']_vars

\* C23. Connection state is coherent: in every reachable state of the wallet
\* panel, after any sequence of page-load initialisation, connectWallet calls
\* and provider accountsChanged events, isConnected is true if and only if
\* account is non-null.
C23_ConnectionCoherent == isConnected <=> account # "none"

\* C24. Network flag is accurate while connected: in every state where
\* isConnected is true and no provider call is in flight, isCorrectNetwork is
\* true if and only if the provider's current chain id is one of 0x1, 0x5 or
\* 0xaa36a7, and networkId equals that chain id; on every path to the
\* connected state, the provider injected after page load included.
C24_NetworkAccurate ==
    (isConnected /\ requests = <<>>) =>
        /\ isCorrectNetwork <=> chainId \in SupportedNetworks
        /\ networkId = chainId

\* C25. The displayed balance belongs to the current account: when the
\* account changes from A to B while a balance request for A is still in
\* flight, then after all balance requests have completed the displayed
\* balance is the balance fetched for B, whatever the order in which the two
\* requests resolve.
C25_BalanceOfCurrentAccount ==
    (/\ Len(requests) = 2
     /\ requests[1].pc = "getBalance" /\ requests[1].account # account
     /\ requests[2].pc = "getBalance" /\ requests[2].account = account) =>
        \A first \in 1..2 :
            LET s1 == BalanceDone([WCur EXCEPT !.requests = RemoveAt(@, first)],
                                  requests[first], TRUE)
                s2 == BalanceDone([s1 EXCEPT !.requests = <<>>],
                                  s1.requests[1], TRUE)
            IN  s2.balance = BalanceOf(account)

====
